---- MODULE Spec2Model ----
(***************************************************************************)
(* Model of selfdrive/controls/lib/events.py: the Events class (the        *)
(* per-cycle event log), the Alert value it hands out and a sample of the  *)
(* EVENTS registry.                                                        *)
(*                                                                         *)
(* Time is counted in control cycles: DT_CTRL is one tick, and the         *)
(* creation delays of the sampled registry entries are scaled down from    *)
(* 100 and 30000 cycles (1 s and 300 s at 0.01 s per cycle) to             *)
(* DelaySensorData and DelayNoGps cycles so that the gate opens inside the *)
(* explored state space.  For the delays of the source (0.5, 1. and 300.)  *)
(* the floating-point product DT_CTRL * n crosses the delay at the same n  *)
(* as the exact product.                                                   *)
(***************************************************************************)
EXTENDS Integers, Sequences, FiniteSets, TLC

\* ---------------------------------------------------------------- bounds
\* longest events list explored
MaxLen == 2
\* largest value a persistence counter reaches
MaxCount == 2
\* longest message handed to add_from_msg
MaxMsg == 2
\* creation delay of the sensorDataInvalid alert, in cycles (1. s in the source)
DelaySensorData == 2
\* creation delay of the noGps alert, in cycles (300. s in the source)
DelayNoGps == 3

\* ---------------------------------------------------------------- helpers
Range(s) == {s[i] : i \in 1..Len(s)}

\* Python's None
None == "None"

\* ------------------------------------------------------- enums and tables
\* cycle period, in ticks
DT_CTRL == 1

Priority ==
  [LOWEST |-> 0, LOWER |-> 1, LOW |-> 2, MID |-> 3, HIGH |-> 4, HIGHEST |-> 5]

ET ==
  [ENABLE |-> "enable", PRE_ENABLE |-> "preEnable", NO_ENTRY |-> "noEntry",
   WARNING |-> "warning", USER_DISABLE |-> "userDisable",
   SOFT_DISABLE |-> "softDisable", IMMEDIATE_DISABLE |-> "immediateDisable",
   PERMANENT |-> "permanent"]

EventTypes == {ET[k] : k \in DOMAIN ET}

\* car.CarEvent.EventName: enumerant name -> raw value (a sample of the enum)
EventName ==
  [sensorDataInvalid |-> 1, noGps |-> 2, radarCanError |-> 3]

\* every raw value an event can carry
EventIds == {EventName[k] : k \in DOMAIN EventName}

EVENT_NAME ==
  [v \in EventIds |-> CHOOSE k \in DOMAIN EventName : EventName[k] = v]

\* ------------------------------------------------------------------ Alert
\* Alert.__init__: the fields the event log reads or writes
Alert(alert_priority, creation_delay) ==
  [alert_priority |-> alert_priority, creation_delay |-> creation_delay,
   alert_type |-> "", event_type |-> None]

NoEntryAlert == Alert(Priority.LOW, 0)

\* __gt__ comparing with >=
GtOrEqual(alert, alert2) == alert.alert_priority >= alert2.alert_priority

\* Alert.__gt__
Gt(alert, alert2) == alert.alert_priority > alert2.alert_priority

\* the callback arguments [CP, sm, metric] of a create_alerts call
CallbackArgs == "CP_sm_metric"

no_gps_alert(callback_args) == Alert(Priority.LOWER, DelayNoGps)

\* a registry value: an Alert instance or a callable that builds one
Static(alert) == [isAlert |-> TRUE, alert |-> alert]

Callable(fn) == [isAlert |-> FALSE, fn |-> fn]

\* alert(*callback_args) for a callable registry value
Call(spec, callback_args) == no_gps_alert(callback_args)

\* the registry as built when the module is loaded
EVENTS0 ==
  (EventName.sensorDataInvalid :>
     ((ET.PERMANENT :> Static(Alert(Priority.LOWER, DelaySensorData))) @@
      (ET.NO_ENTRY :> Static(NoEntryAlert)))) @@
  (EventName.noGps :>
     (ET.PERMANENT :> Callable("no_gps_alert")))

\* EVENTS.keys()
Known == DOMAIN EVENTS0

VARIABLES
  events,         \* self.events
  static_events,  \* self.static_events
  events_prev,    \* self.events_prev
  EVENTS,         \* the module-level registry (its Alert objects are mutable)
  op,             \* the last call made on the log, with its result (for
                  \* clear: the ids it took from a positive counter to 0)
  added,          \* history: ids passed to add() since the last clear()
  streak,         \* history: consecutive finished cycles in which add(e) ran
  staticAdds,     \* history: ids passed to add(..., static=True), in order
  run,            \* history: latest consecutive clear() calls that saw the id
  scen,           \* history: clear() calls since a lone add(noGps, True)
  aliased,        \* self.events is self.static_events (one list object)
  shown,          \* history, kept by SpecTracked only: the concrete alerts
                  \* emitted in this cycle (now) and in earlier cycles of
                  \* the event's unbroken presence (before)
  twin            \* a second run, kept by SpecPair only: its Events fields
                  \* and its registry

vars == <<events, static_events, events_prev, EVENTS, op, added, streak,
          staticAdds, run, scen, aliased, shown, twin>>

\* ------------------------------------------------------- Events: mutation
\* add with the static flag ignored
AddStaticAlways(se, event_name, static) == Append(se, event_name)

\* add that assigns the id to static_events, not appends it
AddStaticReplace(se, event_name, static) ==
  IF static THEN <<event_name>> ELSE se

\* add: the static branch
AddStatic(se, event_name, static) ==
  IF static THEN Append(se, event_name) ELSE se

\* add: the unconditional append
AddEvents(ev, event_name) == Append(ev, event_name)

\* clear without the reset branch
ClearPrevNoReset(prev, ev) ==
  [k \in DOMAIN prev |-> IF k \in Range(ev) THEN prev[k] + 1 ELSE prev[k]]

\* clear that keeps only the keys of the events it saw
ClearPrevDropAbsent(prev, ev) ==
  [k \in DOMAIN prev \cap Range(ev) |-> prev[k] + 1]

\* clear that adds one per occurrence in the list
ClearPrevByCount(prev, ev) ==
  [k \in DOMAIN prev |->
     IF k \in Range(ev)
     THEN prev[k] + Cardinality({i \in 1..Len(ev) : ev[i] = k}) ELSE 0]

\* clear that tests the first element of the list only
ClearPrevFirst(prev, ev) ==
  [k \in DOMAIN prev |-> IF ev # <<>> /\ ev[1] = k THEN prev[k] + 1 ELSE 0]

\* clear that inserts a counter for an id on first use
ClearPrevInsert(prev, ev) ==
  [k \in DOMAIN prev \cup Range(ev) |->
     IF k \in DOMAIN prev THEN (IF k \in Range(ev) THEN prev[k] + 1 ELSE 0)
     ELSE 1]

\* clear: the dict comprehension over events_prev
ClearPrev(prev, ev) ==
  [k \in DOMAIN prev |-> IF k \in Range(ev) THEN prev[k] + 1 ELSE 0]

\* clear that drops the static events
ClearEventsEmpty(se) == <<>>

\* clear: self.static_events.copy()
ClearEvents(se) == se

\* clear that assigns static_events itself to events
ClearSameObjectNoCopy(se) == TRUE

\* clear: copy() returns a new list object, never static_events itself
ClearSameObject(se) == FALSE

\* ---------------------------------------------------------- Events: any
RECURSIVE AnyFrom(_, _, _, _)
AnyFrom(ev, reg, event_type, i) ==
  IF i > Len(ev) THEN FALSE
  ELSE LET types == IF ev[i] \in DOMAIN reg THEN DOMAIN reg[ev[i]] ELSE {}
       IN IF event_type \in types THEN TRUE
          ELSE AnyFrom(ev, reg, event_type, i + 1)

\* any that looks at the first event only
anyFirst(ev, reg, event_type) ==
  ev # <<>> /\ ev[1] \in DOMAIN reg /\ event_type \in DOMAIN reg[ev[1]]

any(ev, reg, event_type) == AnyFrom(ev, reg, event_type, 1)

\* ------------------------------------------------ Events: create_alerts
\* the elapsed cycles without the current one
ElapsedCyclesNoPlus(prev, e) == prev[e]

\* the number of cycles the gate multiplies by DT_CTRL
ElapsedCycles(prev, e) == prev[e] + 1

\* the gate with a strict comparison
GateStrict(prev, e, alert) ==
  DT_CTRL * (prev[e] + 1) > alert.creation_delay

\* the creation-delay gate
Gate(prev, e, alert) == DT_CTRL * ElapsedCycles(prev, e) >= alert.creation_delay

\* the stamp without the alert_type assignment
StampTypeOnly(alert, e, et) == [alert EXCEPT !.event_type = et]

\* the two assignments that stamp an emitted alert
Stamp(alert, e, et) ==
  [alert EXCEPT !.alert_type = EVENT_NAME[e] \o "/" \o et, !.event_type = et]

\* one pass of the inner loop body for event e and type et; st carries the
\* result list, the registry and the exception raised so far
TypeStep(st, prev, e, et, callback_args) ==
  IF st.raised # None \/ et \notin DOMAIN st.reg[e] THEN st
  ELSE LET spec == st.reg[e][et]
       IN IF ~spec.isAlert /\ callback_args = None
          THEN [st EXCEPT !.raised = "TypeError"]
          ELSE LET alert == IF spec.isAlert THEN spec.alert
                            ELSE Call(spec, callback_args)
               IN IF Gate(prev, e, alert)
                  THEN [st EXCEPT
                          !.ret = Append(@, Stamp(alert, e, et)),
                          !.reg = IF spec.isAlert
                                  THEN [@ EXCEPT ![e][et].alert = Stamp(alert, e, et)]
                                  ELSE @]
                  ELSE st

RECURSIVE TypesFrom(_, _, _, _, _, _)
TypesFrom(st, prev, e, event_types, callback_args, j) ==
  IF j > Len(event_types) THEN st
  ELSE TypesFrom(TypeStep(st, prev, e, event_types[j], callback_args),
                 prev, e, event_types, callback_args, j + 1)

\* one pass of the outer loop body: EVENTS[e] raises KeyError for an id the
\* registry does not hold
EventStep(st, prev, e, event_types, callback_args) ==
  IF st.raised # None THEN st
  ELSE IF e \notin DOMAIN st.reg THEN [st EXCEPT !.raised = "KeyError"]
  ELSE TypesFrom(st, prev, e, event_types, callback_args, 1)

RECURSIVE EventsFrom(_, _, _, _, _, _)
EventsFrom(st, ev, prev, event_types, callback_args, i) ==
  IF i > Len(ev) THEN st
  ELSE EventsFrom(EventStep(st, prev, ev[i], event_types, callback_args),
                  ev, prev, event_types, callback_args, i + 1)

\* the list without repeated ids, first occurrences kept
RECURSIVE Dedup(_)
Dedup(s) ==
  IF s = <<>> THEN <<>>
  ELSE LET front == Dedup(SubSeq(s, 1, Len(s) - 1))
       IN IF s[Len(s)] \in Range(front) THEN front ELSE Append(front, s[Len(s)])

\* create_alerts iterating over each id once
CreateAlertsDedup(ev, reg, prev, event_types, callback_args) ==
  EventsFrom([ret |-> <<>>, reg |-> reg, raised |-> None],
             Dedup(ev), prev, event_types, callback_args, 1)

CreateAlerts(ev, reg, prev, event_types, callback_args) ==
  EventsFrom([ret |-> <<>>, reg |-> reg, raised |-> None],
             ev, prev, event_types, callback_args, 1)

\* ------------------------------------------------------ Events: wire codec
\* an entry built without the loop that sets the flags
CarEventNoFlags(event_name, reg) == [name |-> [raw |-> event_name], flags |-> {}]

\* one car.CarEvent message: the name field and the flags set to True
CarEvent(event_name, reg) ==
  [name |-> [raw |-> event_name],
   flags |-> IF event_name \in DOMAIN reg THEN DOMAIN reg[event_name] ELSE {}]

\* to_msg that skips ids the registry does not hold
ToMsgKnownOnly(ev, reg) ==
  LET known == SelectSeq(ev, LAMBDA e : e \in DOMAIN reg)
  IN [i \in 1..Len(known) |-> CarEvent(known[i], reg)]

ToMsg(ev, reg) == [i \in 1..Len(ev) |-> CarEvent(ev[i], reg)]

\* add_from_msg that assigns the message's ids to events, not appends them
AddFromMsgReplace(ev, msg) == [i \in 1..Len(msg) |-> msg[i].name.raw]

RECURSIVE AddFromMsg(_, _)
AddFromMsg(ev, msg) ==
  IF msg = <<>> THEN ev
  ELSE AddFromMsg(Append(ev, Head(msg).name.raw), Tail(msg))

\* ------------------------------------------------------------ call inputs
\* the event_types lists passed to create_alerts
EventTypeLists ==
  {<<ET.PERMANENT>>, <<ET.NO_ENTRY, ET.PERMANENT>>, <<ET.PERMANENT, ET.NO_ENTRY>>}

\* the (event_types, callback_args) pairs create_alerts is called with
CreateAlertsInputs ==
  {<<ets, CallbackArgs>> : ets \in EventTypeLists} \cup {<<<<ET.PERMANENT>>, None>>}

\* the event types any() is asked about
QueriedTypes == {ET.PERMANENT, ET.NO_ENTRY, ET.WARNING}

\* entries of an incoming message: the flags are the sender's, not the
\* registry's
MsgEntries ==
  {[name |-> [raw |-> e], flags |-> {ET.WARNING}] :
     e \in {EventName.sensorDataInvalid, EventName.radarCanError}}

\* messages of up to n entries
RECURSIVE MsgsUpTo(_)
MsgsUpTo(n) ==
  IF n = 0 THEN {<<>>}
  ELSE LET shorter == MsgsUpTo(n - 1)
       IN shorter \cup {Append(m, x) : m \in {s \in shorter : Len(s) = n - 1},
                                       x \in MsgEntries}

\* ------------------------------------------------------------------- Init
Init ==
  /\ events = <<>>
  /\ static_events = <<>>
  /\ events_prev = [k \in Known |-> 0]
  /\ EVENTS = EVENTS0
  /\ op = [name |-> "__init__"]
  /\ added = {}
  /\ streak = [k \in Known |-> 0]
  /\ staticAdds = <<>>
  /\ run = [k \in Known |-> 0]
  /\ scen = -2
  /\ aliased = FALSE
  /\ shown = [now |-> {}, before |-> {}]
  /\ twin = [events |-> <<>>, static_events |-> <<>>,
             events_prev |-> [k \in Known |-> 0], EVENTS |-> EVENTS0]

\* ---------------------------------------------------------------- actions
Add(event_name, static) ==
  /\ Len(events) < MaxLen
  /\ LET se == AddStatic(static_events, event_name, static)
         ev == AddEvents(IF aliased THEN se ELSE events, event_name)
     IN /\ events' = ev
        /\ static_events' = IF aliased THEN ev ELSE se
  /\ op' = [name |-> "add", event_name |-> event_name]
  /\ added' = added \cup ({event_name} \cap Known)
  /\ staticAdds' = IF static THEN Append(staticAdds, event_name) ELSE staticAdds
  /\ scen' = IF scen = -2 /\ event_name = EventName.noGps /\ static
             THEN 0 ELSE -1
  /\ UNCHANGED <<events_prev, EVENTS, streak, run, aliased, shown, twin>>

Clear ==
  /\ \A k \in Known : events_prev[k] < MaxCount
  /\ events_prev' = ClearPrev(events_prev, events)
  /\ events' = ClearEvents(static_events)
  /\ aliased' = ClearSameObject(static_events)
  /\ op' = [name |-> "clear",
            reset |-> {k \in Known : events_prev[k] > 0 /\ k \notin Range(events)}]
  /\ streak' = [k \in Known |->
                  IF k \notin added THEN 0
                  ELSE IF streak[k] > 0 THEN streak[k] + 1
                  ELSE IF events_prev[k] = 0 THEN 1 ELSE 0]
  /\ added' = {}
  /\ run' = [k \in Known |->
               IF \E i \in 1..Len(events) : events[i] = k THEN run[k] + 1 ELSE 0]
  /\ scen' = IF scen >= 0 THEN scen + 1 ELSE scen
  /\ UNCHANGED <<static_events, EVENTS, staticAdds, shown, twin>>

AnyCall(event_type) ==
  /\ op' = [name |-> "any", event_type |-> event_type,
            ret |-> any(events, EVENTS, event_type)]
  /\ UNCHANGED <<events, static_events, events_prev, EVENTS, added, streak,
                 staticAdds, run, scen, aliased, shown, twin>>

\* create_alerts that counts the elapsed cycle itself
CreateAlertsCallCounting(event_types, callback_args) ==
  LET st == CreateAlerts(events, EVENTS, events_prev, event_types, callback_args)
  IN /\ EVENTS' = st.reg
     /\ events_prev' = [k \in DOMAIN events_prev |->
                          IF k \in Range(events) THEN events_prev[k] + 1
                          ELSE events_prev[k]]
     /\ op' = [name |-> "create_alerts", event_types |-> event_types,
               callback_args |-> callback_args, raised |-> st.raised,
               ret |-> IF st.raised = None THEN st.ret ELSE <<>>]
     /\ UNCHANGED <<events, static_events, added, streak, staticAdds, run,
                    scen, aliased, shown, twin>>

CreateAlertsCall(event_types, callback_args) ==
  LET st == CreateAlerts(events, EVENTS, events_prev, event_types, callback_args)
  IN /\ EVENTS' = st.reg
     /\ op' = [name |-> "create_alerts", event_types |-> event_types,
               callback_args |-> callback_args, raised |-> st.raised,
               ret |-> IF st.raised = None THEN st.ret ELSE <<>>]
     /\ UNCHANGED <<events, static_events, events_prev, added, streak,
                    staticAdds, run, scen, aliased, shown, twin>>

AddFromMsgCall(msg) ==
  /\ Len(events) + Len(msg) <= MaxLen
  /\ events' = AddFromMsg(events, msg)
  /\ static_events' = IF aliased THEN events' ELSE static_events
  /\ op' = [name |-> "add_from_msg", msg |-> msg]
  /\ scen' = -1
  /\ UNCHANGED <<events_prev, EVENTS, added, streak, staticAdds, run, aliased,
                 shown, twin>>

\* add_from_msg on the message the last to_msg call produced
AddFromOwnMsg ==
  /\ op.name = "to_msg"
  /\ AddFromMsgCall(op.ret)

ToMsgCall ==
  /\ op' = [name |-> "to_msg", ret |-> ToMsg(events, EVENTS)]
  /\ UNCHANGED <<events, static_events, events_prev, EVENTS, added, streak,
                 staticAdds, run, scen, aliased, shown, twin>>

Next ==
  \/ \E e \in EventIds, static \in BOOLEAN : Add(e, static)
  \/ Clear
  \/ \E t \in QueriedTypes : AnyCall(t)
  \/ \E inp \in CreateAlertsInputs : CreateAlertsCall(inp[1], inp[2])
  \/ \E msg \in MsgsUpTo(MaxMsg) : AddFromMsgCall(msg)
  \/ AddFromOwnMsg
  \/ ToMsgCall

Spec == Init /\ [][Next]_vars

\* ------------------------------------------------- comparing two alerts
\* the alerts handed to __gt__: every priority, with and without a delay
AlertSamples ==
  {Alert(Priority[k], d) : k \in DOMAIN Priority, d \in {0, DelaySensorData}}

GtCall(alert, alert2) ==
  /\ op' = [name |-> "__gt__", alert |-> alert, alert2 |-> alert2,
            ret |-> Gt(alert, alert2)]
  /\ UNCHANGED <<events, static_events, events_prev, EVENTS, added, streak,
                 staticAdds, run, scen, aliased, shown, twin>>

NextGt == \E alert \in AlertSamples, alert2 \in AlertSamples : GtCall(alert, alert2)

SpecGt == Init /\ [][NextGt]_vars

\* ----------------------------------------------------------- properties
\* the last call was a create_alerts call that was given its callback args
CreateAlertsRan ==
  op.name = "create_alerts" /\ op.callback_args # None

\* the last create_alerts call returned an alert for event e and type et
Emitted(e, et) ==
  /\ op.name = "create_alerts"
  /\ \E i \in 1..Len(op.ret) :
       /\ op.ret[i].alert_type = EVENT_NAME[e] \o "/" \o et
       /\ op.ret[i].event_type = et

\* the creation delay of the registry's alert for (e, et)
DelayOf(e, et) ==
  IF EVENTS0[e][et].isAlert THEN EVENTS0[e][et].alert.creation_delay
  ELSE Call(EVENTS0[e][et], CallbackArgs).creation_delay

\* C1: in the state right after any clear() the active list equals the
\* persistent list element for element (ids, order and multiplicity).
C1_ActiveIsPersistentAfterClear ==
  op.name = "clear" => events = static_events

C1_Witness ==
  /\ op.name = "clear"
  /\ Len(events) = 1
  /\ \E k \in Known : events_prev[k] > 0 /\ k \notin Range(events)

\* C2: when a registry-known event e is added on n consecutive cycles,
\* starting from a cycle in which its counter is 0, then during the n-th
\* cycle its counter is n-1 and the elapsed cycles the gate uses are n
\* (streak[e] is the number n-1 of finished cycles of the run).
C2_CounterOnNthCycle ==
  \A e \in Known :
    (e \in added /\ (streak[e] > 0 \/ events_prev[e] = 0)) =>
      /\ events_prev[e] = streak[e]
      /\ ElapsedCycles(events_prev, e) = streak[e] + 1

C2_Witness ==
  \E e \in Known : e \in added /\ streak[e] = 2 /\ CreateAlertsRan

\* C3: for an alert with creation delay D whose event is present,
\* create_alerts does not emit it in a cycle where elapsed * DT_CTRL < D and
\* does emit it in the first cycle where elapsed * DT_CTRL >= D.
C3_Debounce ==
  CreateAlertsRan =>
    \A e \in Known \cap Range(events) :
      \A et \in Range(op.event_types) \cap DOMAIN EVENTS0[e] :
        LET elapsed == events_prev[e] + 1
        IN /\ DT_CTRL * elapsed < DelayOf(e, et) => ~Emitted(e, et)
           /\ (/\ DT_CTRL * elapsed >= DelayOf(e, et)
               /\ (elapsed = 1 \/ DT_CTRL * (elapsed - 1) < DelayOf(e, et)))
              => Emitted(e, et)

\* C4: a clear() that ends a cycle in which a registry-known event e was
\* absent from the active list sets its counter to 0 whatever the value
\* before, and no other call changes a counter, so a create_alerts in the
\* following cycle computes elapsed cycles 1 for e.
C4_AbsenceResets ==
  [][/\ op'.name = "clear" =>
          \A e \in Known : e \notin Range(events) =>
             /\ events_prev'[e] = 0
             /\ ElapsedCycles(events_prev', e) = 1
     /\ op'.name # "clear" => events_prev' = events_prev]_vars

C4_Witness ==
  /\ op.name = "clear"
  /\ \E e \in op.reset :
       /\ events_prev[e] = 0
       /\ ElapsedCycles(events_prev, e) = 1
       /\ \E k \in Known \ {e} : events_prev[k] = MaxCount

\* C5: after a lone add(noGps, static=True) on a new log and no other add,
\* noGps is in the active list in every later cycle, its counter equals
\* the number of clear() calls made since, and the permanent alert with
\* creation delay D = N * DT_CTRL is emitted by create_alerts after N-1 or
\* more clear() calls and never after fewer (scen counts those calls).
C5_PermanentDebounce ==
  scen >= 0 =>
    /\ EventName.noGps \in Range(events)
    /\ events_prev[EventName.noGps] = scen
    /\ (CreateAlertsRan /\ ET.PERMANENT \in Range(op.event_types)) =>
         /\ op.raised = None
         /\ Emitted(EventName.noGps, ET.PERMANENT)
              <=> (scen + 1) * DT_CTRL >= DelayNoGps

C5_Witness ==
  /\ scen + 1 = DelayNoGps
  /\ CreateAlertsRan
  /\ Emitted(EventName.noGps, ET.PERMANENT)

\* C6: when the active list holds an id without a registry entry,
\* create_alerts does not raise: it returns, the unknown id contributes
\* nothing, and the alerts of the other active events are returned.
C6_UnknownIdIsNoError ==
  (CreateAlertsRan /\ Range(events) \ Known # {}) =>
    /\ op.raised = None
    /\ op.ret = CreateAlerts(SelectSeq(events, LAMBDA e : e \in Known), EVENTS,
                             events_prev, op.event_types, op.callback_args).ret

\* C7: any(event_type) is true exactly when some id in the active list has
\* a registry entry for event_type; an id without a registry entry never
\* makes it true, and it is false on an empty list.
C7_AnyIffSomeEntry ==
  op.name = "any" =>
    (op.ret <=> \E i \in 1..Len(events) :
                  /\ events[i] \in Known
                  /\ op.event_type \in DOMAIN EVENTS0[events[i]])

C7_Witness ==
  /\ op.name = "any"
  /\ op.ret
  /\ Len(events) = 2
  /\ events[1] \notin Known

\* C8: the persistent list is exactly the ids passed to add with
\* static=True, in call order with multiplicity; right after clear() the
\* active list holds those ids only, and any(t) is false for a type that
\* none of them provides.
C8_OnlyStaticCarriesOver ==
  /\ static_events = staticAdds
  /\ op.name = "clear" =>
       /\ events = staticAdds
       /\ \A t \in EventTypes :
            any(events, EVENTS, t) <=>
              \E e \in Range(staticAdds) \cap Known : t \in DOMAIN EVENTS0[e]

C8_Witness ==
  /\ op.name = "clear"
  /\ staticAdds # <<>>
  /\ \E k \in Known :
       /\ events_prev[k] > 0
       /\ k \notin Range(events)
       /\ ~any(events, EVENTS, ET.NO_ENTRY)

\* C9: add_from_msg applied on an empty list to the output of to_msg gives
\* back the active list to_msg read: same ids, order and multiplicity,
\* duplicates and ids unknown to the registry included.
C9_WireRoundTrip ==
  op.name = "to_msg" => AddFromMsg(<<>>, op.ret) = events

C9_Witness ==
  /\ op.name = "to_msg"
  /\ Len(events) = 2
  /\ events[1] = events[2]
  /\ events[1] \notin Known

\* C10: the registry is never changed: after any calls every Alert stored
\* in it has the field values it was constructed with, alert_type and
\* event_type included.
C10_RegistryUnchanged ==
  EVENTS = EVENTS0

\* C11: for any two alerts a and b, a > b holds exactly when the priority
\* of a is greater than the priority of b, and > is a strict total order
\* over the six priorities: irreflexive, transitive, and two alerts of
\* different priority are comparable one way.
C11_OrderBySeverity ==
  op.name = "__gt__" =>
    LET a == op.alert
        b == op.alert2
    IN /\ op.ret <=> a.alert_priority > b.alert_priority
       /\ ~Gt(a, a)
       /\ \A c \in AlertSamples : (Gt(a, b) /\ Gt(b, c)) => Gt(a, c)
       /\ a.alert_priority # b.alert_priority => (Gt(a, b) /\ ~Gt(b, a)) \/ (Gt(b, a) /\ ~Gt(a, b))
       /\ Cardinality({x.alert_priority : x \in AlertSamples}) = 6

C11_Witness ==
  /\ op.name = "__gt__"
  /\ op.ret
  /\ op.alert.alert_priority = Priority.HIGHEST
  /\ op.alert2.alert_priority = Priority.HIGH
  /\ op.alert.creation_delay < op.alert2.creation_delay

\* C12 as stated: every id that has been placed in the active list (an id
\* in the list has been placed in it) has an entry in events_prev, and
\* every entry is a non-negative integer.
C12_EverySeenIdHasCounter ==
  /\ \A i \in 1..Len(events) : events[i] \in DOMAIN events_prev
  /\ \A k \in DOMAIN events_prev : events_prev[k] \in Nat

\* C12 (amended): every registry-known id, and so every registry-known id
\* that has been placed in the active list, has an entry in events_prev,
\* and every entry is a non-negative integer.
C12_EveryKnownIdHasCounter ==
  /\ \A e \in Known : e \in DOMAIN events_prev
  /\ \A k \in DOMAIN events_prev : events_prev[k] \in Nat

C12_Witness ==
  /\ Len(events) = 2
  /\ events[1] \in Known
  /\ events_prev[events[1]] > 0
  /\ events[2] \notin Known
  /\ op.name = "add_from_msg"

\* C13: clear() updates every counter from the list as it was before the
\* call, by membership and not by multiplicity: the new value of a key is
\* the old value + 1 when the key occurs at least once in that list (also
\* when it occurs several times) and 0 otherwise; the active list is
\* replaced by the static events after that.
C13_ClearCountsMembership ==
  [][op'.name = "clear" =>
       /\ \A k \in DOMAIN events_prev :
            events_prev'[k] =
              IF Cardinality({i \in 1..Len(events) : events[i] = k}) >= 1
              THEN events_prev[k] + 1 ELSE 0
       /\ events' = static_events]_vars

C13_Witness ==
  /\ op.name = "clear"
  /\ Len(static_events) = 2
  /\ static_events[1] = static_events[2]
  /\ static_events[1] \in Known
  /\ events_prev[static_events[1]] = 2

\* C14: in every reachable state the counter of an id equals the number of
\* latest consecutive clear() calls that found the id in the active list
\* (0 when the latest clear() did not find it or none has run yet), so it
\* grows by 1 per cycle while the id stays present and is 0 after the
\* first cycle without it.
C14_CounterIsRunLength ==
  \A e \in DOMAIN events_prev : events_prev[e] = run[e]

C14_Witness ==
  /\ op.name = "add"
  /\ Len(events) = 2
  /\ events[1] \in Known /\ events[2] \in Known
  /\ run[events[1]] = 2
  /\ run[events[2]] = 0

\* the alert the registry holds or builds for (e, et), as constructed
RegistryAlert(e, et) ==
  IF EVENTS0[e][et].isAlert THEN EVENTS0[e][et].alert
  ELSE Call(EVENTS0[e][et], CallbackArgs)

\* the (event, type) pairs of a list of known events and a list of types,
\* event by event in list order and type by type in request order, that
\* have a registry entry whose delay has elapsed
ExpectedPairs(ev, event_types, prev) ==
  LET m == Len(event_types)
      all == [k \in 1..(Len(ev) * m) |->
                <<ev[((k - 1) \div m) + 1], event_types[((k - 1) % m) + 1]>>]
  IN SelectSeq(all, LAMBDA p :
       /\ p[2] \in DOMAIN EVENTS0[p[1]]
       /\ DT_CTRL * (prev[p[1]] + 1) >= RegistryAlert(p[1], p[2]).creation_delay)

\* C15: create_alerts returns the emitted alerts event by event in the
\* order of the active list and, within one event, in the order of the
\* requested types, not sorted by priority and not deduplicated: an id
\* that occurs k times contributes its emitted alerts k times.
C15_ResultOrder ==
  (op.name = "create_alerts" /\ op.raised = None) =>
    LET pairs == ExpectedPairs(events, op.event_types, events_prev)
    IN /\ Len(op.ret) = Len(pairs)
       /\ \A n \in 1..Len(pairs) :
            /\ op.ret[n].alert_priority =
                 RegistryAlert(pairs[n][1], pairs[n][2]).alert_priority
            /\ op.ret[n].creation_delay =
                 RegistryAlert(pairs[n][1], pairs[n][2]).creation_delay

C15_Witness ==
  /\ op.name = "create_alerts"
  /\ op.raised = None
  /\ Len(op.ret) = 4
  /\ events[1] = events[2]
  /\ op.ret[1].alert_priority < op.ret[2].alert_priority
  /\ op.ret[2].alert_priority > op.ret[3].alert_priority

\* C16: every alert create_alerts returns carries the tag
\* "<EVENT_NAME[e]>/<et>" and the event type et of the (event, type) pair
\* that produced it, also when one call returns alerts of several events
\* and several types.
C16_AlertsAreTagged ==
  (op.name = "create_alerts" /\ op.raised = None) =>
    LET pairs == ExpectedPairs(events, op.event_types, events_prev)
    IN \A n \in 1..Len(op.ret) :
         /\ n <= Len(pairs)
         /\ op.ret[n].alert_type = EVENT_NAME[pairs[n][1]] \o "/" \o pairs[n][2]
         /\ op.ret[n].event_type = pairs[n][2]

C16_Witness ==
  /\ op.name = "create_alerts"
  /\ Len(op.ret) = 3
  /\ op.ret[1].alert_type = "sensorDataInvalid/noEntry"
  /\ op.ret[2].alert_type = "sensorDataInvalid/permanent"
  /\ op.ret[3].alert_type = "noGps/permanent"
  /\ op.ret[3].event_type = ET.PERMANENT

\* C17: a registry-known id in the active list that has no registry entry
\* for a requested type contributes no alert for that type and the call
\* does not raise; the alerts of the requested types it does have (and
\* whose delay has elapsed) are still returned.
C17_MissingTypeIsSkipped ==
  CreateAlertsRan =>
    \A e \in Known \cap Range(events) :
      (\E et \in Range(op.event_types) : et \notin DOMAIN EVENTS0[e]) =>
        /\ op.raised = None
        /\ \A et \in Range(op.event_types) :
             /\ et \notin DOMAIN EVENTS0[e] => ~Emitted(e, et)
             /\ (/\ et \in DOMAIN EVENTS0[e]
                 /\ DT_CTRL * (events_prev[e] + 1) >= DelayOf(e, et))
                => Emitted(e, et)

\* C18: add_from_msg appends the ids of the message's entries to the end of
\* events in message order and leaves static_events and events_prev as they
\* were; the flags the entries carry play no part.
C18_AddFromMsgAppends ==
  [][op'.name = "add_from_msg" =>
       /\ events' = events \o [i \in 1..Len(op'.msg) |-> op'.msg[i].name.raw]
       /\ static_events' = static_events
       /\ events_prev' = events_prev]_vars

\* a message entry whose flags differ from the registry's was appended
\* behind an event already in the list, with a persistent event and a
\* running counter present
C18_Witness ==
  /\ op.name = "add_from_msg"
  /\ Len(op.msg) = 1
  /\ Len(events) = 2
  /\ events[2] = op.msg[1].name.raw
  /\ events[1] # events[2]
  /\ op.msg[1].flags # CarEvent(events[2], EVENTS0).flags
  /\ static_events # <<>>
  /\ \E k \in Known : events_prev[k] > 0

\* C19: to_msg returns one entry per element of events, in the order of
\* events and with duplicates kept; the flags set in an entry are exactly
\* the event types the registry holds for the entry's id, none for an id
\* the registry does not hold.
C19_ToMsgEntries ==
  op.name = "to_msg" =>
    /\ Len(op.ret) = Len(events)
    /\ \A i \in 1..Len(events) :
         /\ op.ret[i].name.raw = events[i]
         /\ op.ret[i].flags = (IF events[i] \in Known
                               THEN DOMAIN EVENTS0[events[i]] ELSE {})

\* a message for a known id with two event types followed by an id the
\* registry does not hold
C19_Witness ==
  /\ op.name = "to_msg"
  /\ Len(events) = 2
  /\ events[1] \in Known
  /\ op.ret[1].flags = {ET.PERMANENT, ET.NO_ENTRY}
  /\ events[2] \notin Known
  /\ op.ret[2].flags = {}

\* C20: the key set of events_prev never changes: after any sequence of
\* add, add_from_msg, clear and create_alerts calls it is the set of ids
\* the registry held at construction; no call inserts or removes a key.
C20_CounterKeysAreStatic == DOMAIN events_prev = Known

\* a clear ran over a list that held an id the registry does not hold (it
\* was added as static, so it is carried over) while a known id was counted
C20_Witness ==
  /\ op.name = "clear"
  /\ \E e \in Range(static_events) : e \notin Known
  /\ \E k \in Known : events_prev[k] > 0

\* C21: add never changes events_prev, and add with static=False never
\* changes static_events, also right after clear: the list clear installs
\* as events is a copy, so the append to events does not reach
\* static_events.
C21_AddFrame ==
  [][op'.name = "add" =>
       /\ events_prev' = events_prev
       /\ staticAdds' = staticAdds => static_events' = static_events]_vars

\* after a clear that carried over a static event with a running counter,
\* the only add was a non-static add of another known id
C21_Witness ==
  /\ op.name = "add"
  /\ Len(static_events) = 1
  /\ events = Append(static_events, op.event_name)
  /\ op.event_name \in Known
  /\ op.event_name # static_events[1]
  /\ added = {op.event_name}
  /\ static_events[1] \in Known
  /\ events_prev[static_events[1]] > 0

\* the (event, type) tags of a returned list of alerts, in order
Tags(ret) == [i \in 1..Len(ret) |-> ret[i].alert_type]

\* C22: any, create_alerts and to_msg leave events, static_events and
\* events_prev as they were, so a second create_alerts call in the same
\* cycle with the same event_types and callback_args ends the same way and
\* returns alerts of the same events and types in the same order.
C22_QueriesArePure ==
  /\ [][op'.name \in {"any", "create_alerts", "to_msg"} =>
          /\ events' = events
          /\ static_events' = static_events
          /\ events_prev' = events_prev]_vars
  /\ [](op.name = "create_alerts" =>
          LET again == CreateAlerts(events, EVENTS, events_prev,
                                    op.event_types, op.callback_args)
          IN /\ again.raised = op.raised
             /\ again.raised = None => Tags(again.ret) = Tags(op.ret))

\* a create_alerts call that returned two alerts and stamped the registry,
\* so that a second call starts from a changed registry
C22_Witness ==
  /\ op.name = "create_alerts"
  /\ op.raised = None
  /\ Len(op.ret) >= 2
  /\ EVENTS # EVENTS0
  /\ \E k \in Known : events_prev[k] > 0

\* ------------------------------------- cycles with the emissions recorded
\* the (event, type) pairs with a concrete registry alert that a returned
\* list holds
ConcretePairs(ret) ==
  {p \in Known \X EventTypes :
     /\ p[2] \in DOMAIN EVENTS0[p[1]]
     /\ EVENTS0[p[1]][p[2]].isAlert
     /\ \E i \in 1..Len(ret) : ret[i].alert_type = EVENT_NAME[p[1]] \o "/" \o p[2]}

AddTracked(event_name, static) ==
  /\ Len(events) < MaxLen
  /\ LET se == AddStatic(static_events, event_name, static)
         ev == AddEvents(IF aliased THEN se ELSE events, event_name)
     IN /\ events' = ev
        /\ static_events' = IF aliased THEN ev ELSE se
  /\ op' = [name |-> "add", event_name |-> event_name]
  /\ UNCHANGED <<events_prev, EVENTS, added, streak, staticAdds, run, scen,
                 aliased, shown, twin>>

\* clear: what was emitted for an event the cycle saw is carried over, what
\* was emitted for an event it did not see is forgotten
ClearTracked ==
  /\ \A k \in Known : events_prev[k] < MaxCount
  /\ events_prev' = ClearPrev(events_prev, events)
  /\ events' = ClearEvents(static_events)
  /\ aliased' = ClearSameObject(static_events)
  /\ op' = [name |-> "clear",
            reset |-> {k \in Known : events_prev[k] > 0 /\ k \notin Range(events)}]
  /\ shown' = [now |-> {},
               before |-> {p \in shown.now \cup shown.before :
                             p[1] \in Range(events)}]
  /\ UNCHANGED <<static_events, EVENTS, added, streak, staticAdds, run, scen,
                 twin>>

CreateAlertsTracked(event_types, callback_args) ==
  LET st == CreateAlerts(events, EVENTS, events_prev, event_types, callback_args)
  IN /\ EVENTS' = st.reg
     /\ op' = [name |-> "create_alerts", event_types |-> event_types,
               callback_args |-> callback_args, raised |-> st.raised,
               ret |-> IF st.raised = None THEN st.ret ELSE <<>>]
     /\ shown' = IF st.raised = None
                 THEN [shown EXCEPT !.now = @ \cup ConcretePairs(st.ret)]
                 ELSE shown
     /\ UNCHANGED <<events, static_events, events_prev, added, streak,
                    staticAdds, run, scen, aliased, twin>>

NextTracked ==
  \/ \E e \in EventIds, static \in BOOLEAN : AddTracked(e, static)
  \/ ClearTracked
  \/ \E ets \in EventTypeLists : CreateAlertsTracked(ets, CallbackArgs)

SpecTracked == Init /\ [][NextTracked]_vars

\* C23: once create_alerts has returned the concrete alert of event e and
\* type t in some cycle, a create_alerts call that requests t returns it in
\* every following cycle as long as e has been in events in every cycle in
\* between.
C23_GateIsMonotone ==
  CreateAlertsRan =>
    \A p \in shown.before :
      (p[1] \in Range(events) /\ p[2] \in Range(op.event_types))
        => Emitted(p[1], p[2])

\* the number of occurrences of an id in a list
Count(ev, e) == Cardinality({i \in 1..Len(ev) : ev[i] = e})

\* C24: static_events is contained in events with multiplicity in every
\* reachable state and only ever grows by appending; so an id once passed
\* to add(..., static=True) is in events in every later state and no later
\* clear resets its counter to 0.
C24_StaticStaysActive ==
  /\ [](/\ \A e \in EventIds : Count(static_events, e) <= Count(events, e)
        /\ \A e \in Range(staticAdds) : e \in Range(events)
        /\ op.name = "clear" =>
             \A e \in Range(staticAdds) \cap Known :
               e \notin op.reset /\ events_prev[e] > 0)
  /\ [][/\ Len(static_events') >= Len(static_events)
        /\ SubSeq(static_events', 1, Len(static_events)) = static_events]_vars

\* two clears after the same known id was added twice as static
C24_Witness ==
  /\ op.name = "clear"
  /\ Len(static_events) = 2
  /\ static_events[1] = static_events[2]
  /\ static_events[1] \in Known
  /\ events_prev[static_events[1]] >= 2
  /\ staticAdds = static_events

\* --------------------------------------------- two runs side by side
\* The run in events/static_events/events_prev and the run in twin make the
\* same add calls for Tracked and clear together; each adds other events
\* of its own.
Tracked == EventName.sensorDataInvalid

OtherIds == EventIds \ {Tracked}

\* add(Tracked, static) in both runs
AddBoth(static) ==
  /\ Len(events) < MaxLen
  /\ Len(twin.events) < MaxLen
  /\ static_events' = AddStatic(static_events, Tracked, static)
  /\ events' = AddEvents(events, Tracked)
  /\ twin' = [twin EXCEPT
                !.static_events = AddStatic(@, Tracked, static),
                !.events = AddEvents(@, Tracked)]
  /\ op' = [name |-> "add", event_name |-> Tracked]
  /\ UNCHANGED <<events_prev, EVENTS, added, streak, staticAdds, run, scen,
                 aliased, shown>>

\* add of another event in the first run only
AddFirstOnly(event_name, static) ==
  /\ Len(events) < MaxLen
  /\ static_events' = AddStatic(static_events, event_name, static)
  /\ events' = AddEvents(events, event_name)
  /\ op' = [name |-> "add", event_name |-> event_name]
  /\ UNCHANGED <<events_prev, EVENTS, added, streak, staticAdds, run, scen,
                 aliased, shown, twin>>

\* add of another event in the second run only
AddTwinOnly(event_name, static) ==
  /\ Len(twin.events) < MaxLen
  /\ twin' = [twin EXCEPT
                !.static_events = AddStatic(@, event_name, static),
                !.events = AddEvents(@, event_name)]
  /\ op' = [name |-> "add", event_name |-> event_name]
  /\ UNCHANGED <<events, static_events, events_prev, EVENTS, added, streak,
                 staticAdds, run, scen, aliased, shown>>

\* clear in both runs
ClearBoth ==
  /\ \A k \in Known : events_prev[k] < MaxCount /\ twin.events_prev[k] < MaxCount
  /\ events_prev' = ClearPrev(events_prev, events)
  /\ events' = ClearEvents(static_events)
  /\ aliased' = ClearSameObject(static_events)
  /\ twin' = [twin EXCEPT
                !.events_prev = ClearPrev(@, twin.events),
                !.events = ClearEvents(twin.static_events)]
  /\ op' = [name |-> "clear",
            reset |-> {k \in Known : events_prev[k] > 0 /\ k \notin Range(events)}]
  /\ UNCHANGED <<static_events, EVENTS, added, streak, staticAdds, run, scen,
                 shown>>

\* create_alerts with the same arguments in both runs; op holds the
\* outcome of the first run's call and, as raised2 and ret2, the second's
CreateAlertsBoth(event_types, callback_args) ==
  LET st == CreateAlerts(events, EVENTS, events_prev, event_types, callback_args)
      st2 == CreateAlerts(twin.events, twin.EVENTS, twin.events_prev,
                          event_types, callback_args)
  IN /\ EVENTS' = st.reg
     /\ op' = [name |-> "create_alerts", event_types |-> event_types,
               callback_args |-> callback_args, raised |-> st.raised,
               ret |-> IF st.raised = None THEN st.ret ELSE <<>>,
               raised2 |-> st2.raised,
               ret2 |-> IF st2.raised = None THEN st2.ret ELSE <<>>]
     /\ twin' = [twin EXCEPT !.EVENTS = st2.reg]
     /\ UNCHANGED <<events, static_events, events_prev, added, streak,
                    staticAdds, run, scen, aliased, shown>>

NextPair ==
  \/ \E static \in BOOLEAN : AddBoth(static)
  \/ \E e \in OtherIds, static \in BOOLEAN : AddFirstOnly(e, static)
  \/ \E e \in OtherIds, static \in BOOLEAN : AddTwinOnly(e, static)
  \/ ClearBoth
  \/ \E ets \in EventTypeLists : CreateAlertsBoth(ets, CallbackArgs)

SpecPair == Init /\ [][NextPair]_vars

\* the second run's last create_alerts call returned an alert for e and et
EmittedTwin(e, et) ==
  \E i \in 1..Len(op.ret2) :
    /\ op.ret2[i].alert_type = EVENT_NAME[e] \o "/" \o et
    /\ op.ret2[i].event_type = et

\* C25: for two runs that add event e in the same cycles and differ in the
\* other events they add (and in whether those are static), events_prev[e]
\* is the same in both after every clear, and a create_alerts call returns
\* e's alert of a requested type in one run iff it does in the other.
C25_NoInterference ==
  /\ events_prev[Tracked] = twin.events_prev[Tracked]
  /\ CreateAlertsRan =>
       \A et \in Range(op.event_types) :
         Emitted(Tracked, et) <=> EmittedTwin(Tracked, et)

====
